---- MODULE Spec2Model ----
(***************************************************************************)
(* A model of the goindex inverted index: src/index/index.go (posting      *)
(* lists, the index core and AddPost) and src/index/query.go (the query    *)
(* parser and the operator pipeline).                                      *)
(*                                                                         *)
(* Heap objects (PostSet, PostChunk) live in the sequences postSets and    *)
(* chunks; a pointer is an index into them and NilRef is the nil pointer.  *)
(* Go indexes arrays from 0, and so do IDs and buffer here.                *)
(***************************************************************************)
EXTENDS Integers, Sequences, FiniteSets, TLC

\* ---------------------------------------------------------------- bounds
\* Number of AddPost calls that run concurrently (one goroutine each) with
\* term lists of any shape.
NumCalls == 2
\* Number of AddPost calls made one after the other while a query runs.
SeqCalls == 3
\* Number of AddPost calls that run concurrently on the posting lists alone.
ListCalls == 3
\* Longest term list passed to AddPost.
MaxTerms == 2
\* Longest query string given to the parser alone.
MaxQueryLen == 7
\* ChunkSize (index.go:9) is 4096 in the source; the model runs with a small
\* capacity so that chunks of several ids, full chunks and pushes of a new head
\* chunk are reached.
ChunkSize == 2

\* queryBufferSize (query.go:5) is 128 in the source; small here for the same
\* reason.
queryBufferSize == 2

\* ------------------------------------------------------------- constants
NilRef == 0
beforeStartedLength == 0
doneLength == -1

\* The largest of a set of numbers.
MaxOf(S) == CHOOSE m \in S : \A n \in S : n <= m
\* The AddPost calls, numbered in the order they begin.
Calls == 1..MaxOf({NumCalls, SeqCalls, ListCalls})

\* A term is a Go string: a sequence of bytes, written as one-character strings.
Letters == {"a", "b"}
Words == {<<c>> : c \in Letters}
WordLists == UNION {[1..n -> Words] : n \in 0..MaxTerms}

\* The byte value of a character (ASCII), which orders Go strings.
Byte(c) ==
  CASE c = " "  -> 32
    [] c = "\"" -> 34
    [] c = "&"  -> 38
    [] c = "a"  -> 97
    [] c = "b"  -> 98
    [] c = "|"  -> 124

\* s < t for Go strings: bytewise lexicographic order.
StringLess(s, t) ==
  \E k \in 1..Len(t) :
     /\ \A j \in 1..(k - 1) : j <= Len(s) /\ s[j] = t[j]
     /\ (k > Len(s) \/ (k <= Len(s) /\ Byte(s[k]) < Byte(t[k])))

InsertSorted(s, w) ==
  LET n == Cardinality({j \in 1..Len(s) : ~StringLess(w, s[j])})
  IN  SubSeq(s, 1, n) \o <<w>> \o SubSeq(s, n + 1, Len(s))

RECURSIVE SortedInsertAll(_)
SortedInsertAll(ws) ==
  IF ws = <<>> THEN <<>>
  ELSE InsertSorted(SortedInsertAll(SubSeq(ws, 1, Len(ws) - 1)), ws[Len(ws)])

\* A plausible slip: the words are copied but left in the caller's order.
SortStringsSkipped(ws) == ws

\* sort.Strings on the copy of words (index.go:151-153).
SortStrings(ws) == SortedInsertAll(ws)

\* The global id the p-th call passes: 100, 200, 300, ... (opaque to the index).
GlobalIdOf(p) == 100 * p

\* ----------------------------------------------------------------- state
VARIABLES
  nextLocalId,  \* PostIndex.nextLocalId
  sets,         \* PostIndex.sets: [isNil, m], m a function term -> PostSet ref
  idMap,        \* PostIndex.idMap: [isNil, m], m a function local id -> global id
  postSets,     \* heap of PostSet: [firstChunk, SyncRoot]; SyncRoot is the holder or 0
  chunks,       \* heap of PostChunk: [IDs, Length, Next]
  pc,           \* position of each AddPost call
  call,         \* locals of each AddPost call
  qpc,          \* position of the QueryPosts call
  qry           \* locals of the QueryPosts call

vars == <<nextLocalId, sets, idMap, postSets, chunks, pc, call, qpc, qry>>

\* &PostChunk{}: the zero value.
EmptyIDs == [i \in 0..(ChunkSize - 1) |-> 0]
PostChunk(ids, length, next) == [IDs |-> ids, Length |-> length, Next |-> next]

EmptyMap == [isNil |-> TRUE, m |-> <<>>]
MapHas(mp, k) == ~mp.isNil /\ k \in DOMAIN mp.m
MapPut(mp, k, v) ==
  [isNil |-> FALSE,
   m |-> [x \in (DOMAIN mp.m) \cup {k} |-> IF x = k THEN v ELSE mp.m[x]]]
\* make(map...): an empty, non-nil map.
MapMake(mp) == [isNil |-> FALSE, m |-> mp.m]

IdleCall ==
  [id |-> 0, words |-> <<>>, sortedWords |-> <<>>, sets |-> <<>>,
   needWrite |-> FALSE, i |-> 0, localId |-> 0, firstChunk |-> NilRef,
   after |-> {}]

NoError == [Position |-> -1, Message |-> ""]

IdleQuery ==
  [query |-> <<>>, limit |-> 0, i |-> 0, stack |-> <<>>, root |-> <<>>,
   locals |-> <<>>, result |-> <<>>, err |-> NoError, after |-> {}, begun |-> {}]

Init ==
  /\ nextLocalId = 0
  /\ sets = EmptyMap
  /\ idMap = EmptyMap
  /\ postSets = <<>>
  /\ chunks = <<>>
  /\ pc = [p \in Calls |-> "init"]
  /\ call = [p \in Calls |-> IdleCall]
  /\ qpc = "init"
  /\ qry = IdleQuery

\* --------------------------------------------------------- posting lists
\* PostSet.FirstChunk (index.go:39-41).
FirstChunk(ps, s) == ps[s].firstChunk

\* findSetChunkForQuery (index.go:51-65), the section under setsLock.RLock.
findSetChunkForQuery(st, ps, word) ==
  IF st.isNil THEN NilRef
  ELSE IF word \in DOMAIN st.m THEN FirstChunk(ps, st.m[word])
  ELSE NilRef

\* The chunks of a list from chunk c on, newest first.
RECURSIVE ChunkChain(_, _)
ChunkChain(ch, c) ==
  IF c = NilRef THEN <<>> ELSE <<c>> \o ChunkChain(ch, ch[c].Next)

\* The valid prefix IDs[0..Length) of chunk c, as a sequence.
ValidPrefix(ch, c) == [k \in 1..ch[c].Length |-> ch[c].IDs[k - 1]]

\* The ids of a list from chunk c on, oldest first.
RECURSIVE ListIds(_, _)
ListIds(ch, c) ==
  IF c = NilRef THEN <<>> ELSE ListIds(ch, ch[c].Next) \o ValidPrefix(ch, c)


\* NewPostSet (index.go:22-26): a PostSet whose head is a fresh empty chunk.
NewPostSet(ps, ch) ==
  [ps  |-> Append(ps, [firstChunk |-> Len(ch) + 1, SyncRoot |-> 0]),
   ch  |-> Append(ch, PostChunk(EmptyIDs, 0, NilRef)),
   ref |-> Len(ps) + 1]

\* A plausible slip: the new head chunk forgets the chunk it replaces.
PushedChunkUnlinked(id, firstChunk) ==
  PostChunk([EmptyIDs EXCEPT ![0] = id], 1, NilRef)

\* &PostChunk{[ChunkSize]uint32{0: id}, 1, firstChunk} (index.go:31).
PushedChunk(id, firstChunk) ==
  PostChunk([EmptyIDs EXCEPT ![0] = id], 1, firstChunk)

\* atomic.AddInt32 (index.go:35, 161): the new value. (The counters of the
\* model stay far below 2^31, so the 32-bit wrap is never reached.)
AddInt32(v, delta) == v + delta

\* A plausible slip: the value before the add is used as the id (fetch-and-add).
LocalIdFromOld(old, new) == old

\* localId := (uint32)(atomic.AddInt32(&index.nextLocalId, 1)) (index.go:161).
LocalIdFrom(old, new) == new

\* A plausible slip: key and value exchanged.
addIdMappingSwapped(mp, globalId, localId) == MapPut(mp, globalId, localId)

\* addIdMapping (index.go:115-129), the section under idMapLock.
addIdMapping(mp, globalId, localId) == MapPut(mp, localId, globalId)

\* A plausible slip: the per-list lock is never waited for.
SyncRootFreeAlways(ps, s) == TRUE

\* sync.Mutex.Lock on PostSet.SyncRoot returns only when nobody holds it
\* (index.go:157); the mutex is not reentrant.
SyncRootFree(ps, s) == ps[s].SyncRoot = 0

\* ------------------------------------------------------ findOrCreateSets
\* First pass (index.go:78-89), under setsLock.RLock.
FindReadSets(st, sw) ==
  [i \in 1..Len(sw) |-> IF MapHas(st, sw[i]) THEN st.m[sw[i]] ELSE NilRef]

FindReadNeedWrite(st, sw) ==
  st.isNil \/ \E i \in 1..Len(sw) : ~MapHas(st, sw[i])

\* A plausible slip: the second pass creates a PostSet for every word the first
\* pass missed, without looking the word up again under the write lock.
RECURSIVE CreateLoopNoRecheck(_, _, _)
CreateLoopNoRecheck(sw, i, st) ==
  IF i > Len(sw) THEN st
  ELSE IF st.local[i] # NilRef THEN CreateLoopNoRecheck(sw, i + 1, st)
  ELSE LET new == NewPostSet(st.ps, st.ch)
       IN  CreateLoopNoRecheck(sw, i + 1,
             [local |-> [st.local EXCEPT ![i] = new.ref],
              map   |-> MapPut(st.map, sw[i], new.ref),
              ps    |-> new.ps,
              ch    |-> new.ch])

\* Second pass (index.go:100-108), under setsLock.Lock; st holds the local
\* slice of sets, the map and the heap.
RECURSIVE CreateLoop(_, _, _)
CreateLoop(sw, i, st) ==
  IF i > Len(sw) THEN st
  ELSE IF st.local[i] # NilRef THEN CreateLoop(sw, i + 1, st)
  ELSE IF MapHas(st.map, sw[i])
    THEN CreateLoop(sw, i + 1, [st EXCEPT !.local[i] = st.map.m[sw[i]]])
  ELSE LET new == NewPostSet(st.ps, st.ch)
       IN  CreateLoop(sw, i + 1,
             [local |-> [st.local EXCEPT ![i] = new.ref],
              map   |-> MapPut(st.map, sw[i], new.ref),
              ps    |-> new.ps,
              ch    |-> new.ch])

\* -------------------------------------------------------- query pipeline
\* A QueryOperator is a record with a kind: a TerminalOperator
\* [Current, ChunkCursor], or an AndOperator or OrOperator [Left, Right] whose
\* children are QueryNodes [buffer, length, cursor, op]. A TerminalOperator
\* also carries two history fields that the code does not have: snap, the ids
\* in the valid prefix of its list when it was created, and emitted, the ids it
\* has written so far.
ZeroBuffer == [i \in 0..(queryBufferSize - 1) |-> 0]

\* QueryNode{op: op} (query.go:70, 114, 211).
NewQueryNode(op) == [buffer |-> ZeroBuffer, length |-> 0, cursor |-> 0, op |-> op]

\* &TerminalOperator{Current: chunk} (query.go:203): ChunkCursor is the zero value.
NewTerminalOperator(chunk, ch) ==
  [kind |-> "terminal", Current |-> chunk, ChunkCursor |-> 0,
   snap |-> ListIds(ch, chunk), emitted |-> <<>>]

\* NewAndOperator, NewOrOperator (query.go:69-71, 113-115).
NewAndOperator(left, right) ==
  [kind |-> "and", Left |-> NewQueryNode(left), Right |-> NewQueryNode(right)]
NewOrOperator(left, right) ==
  [kind |-> "or", Left |-> NewQueryNode(left), Right |-> NewQueryNode(right)]

\* QueryNode.Current, Started, Done (query.go:18-28).
Current(node) == node.buffer[node.cursor]
Started(node) == node.length = beforeStartedLength
Done(node) == node.length = doneLength

\* q.op.NextChunk(q.buffer) passes the array by value (query.go:8, 34): the
\* operator fills its own copy, and the caller's array is what it was.
BufferAfterNextChunk(callerBuffer, operatorCopy) == callerBuffer

\* TerminalOperator.NextChunk (query.go:50-62), from loop index i on. The
\* result is the operator, its copy of the buffer, the count returned and
\* whether the call panicked (a nil PostChunk dereferenced at query.go:55, or
\* an index outside IDs at query.go:57).
RECURSIVE TerminalLoop(_, _, _, _)
TerminalLoop(op, buffer, i, ch) ==
  IF ~(i < queryBufferSize /\ op.Current # NilRef)
  THEN [op |-> op, buffer |-> buffer, n |-> i, panic |-> FALSE]
  ELSE IF op.ChunkCursor < 0 /\ ch[op.Current].Next = NilRef
  THEN [op |-> [op EXCEPT !.Current = NilRef], buffer |-> buffer, n |-> i,
        panic |-> TRUE]
  ELSE LET at == IF op.ChunkCursor < 0
                 THEN [op EXCEPT !.Current = ch[op.Current].Next,
                                 !.ChunkCursor = ch[ch[op.Current].Next].Length - 1]
                 ELSE op
       IN  IF at.ChunkCursor \notin 0..(ChunkSize - 1)
           THEN [op |-> at, buffer |-> buffer, n |-> i, panic |-> TRUE]
           ELSE LET id == ch[at.Current].IDs[at.ChunkCursor]
                IN  TerminalLoop([at EXCEPT !.ChunkCursor = at.ChunkCursor - 1,
                                            !.emitted = Append(at.emitted, id)],
                                 [buffer EXCEPT ![i] = id], i + 1, ch)

\* A plausible slip: a count of 0 is stored as it is.
LengthAfterPullKept(n) == n

\* if q.length == 0 { q.length = doneLength } (query.go:35-37): NextChunk
\* returns 0 to signal completion.
LengthAfterPull(n) == IF n = 0 THEN doneLength ELSE n

RECURSIVE NextChunk(_, _, _)
RECURSIVE MoveNext(_, _)

\* QueryNode.MoveNext (query.go:30-43): the node, the value returned and
\* whether the call panicked.
MoveNext(node, ch) ==
  IF Done(node) THEN [node |-> node, ok |-> FALSE, panic |-> FALSE]
  ELSE IF node.cursor + 1 >= node.length
  THEN LET r == NextChunk(node.op, node.buffer, ch)
           length == LengthAfterPull(r.n)
       IN  [node  |-> [buffer |-> BufferAfterNextChunk(node.buffer, r.buffer),
                       length |-> IF r.panic THEN node.length ELSE length,
                       cursor |-> IF r.panic THEN node.cursor + 1 ELSE 0,
                       op     |-> r.op],
            ok    |-> ~r.panic /\ length # doneLength,
            panic |-> r.panic]
  ELSE [node |-> [node EXCEPT !.cursor = node.cursor + 1], ok |-> TRUE,
        panic |-> FALSE]

\* AndOperator.nextMatch, the loop of query.go:79-83: Left is advanced while it
\* is ahead of Right. The result is the operator, whether the function goes on
\* (FALSE: it returns 0, false) and whether it panicked.
RECURSIVE AndSkipLeft(_, _)
AndSkipLeft(op, ch) ==
  IF ~(Current(op.Left) > Current(op.Right))
  THEN [op |-> op, ok |-> TRUE, panic |-> FALSE]
  ELSE LET l == MoveNext(op.Left, ch)
       IN  IF l.panic \/ ~l.ok
           THEN [op |-> [op EXCEPT !.Left = l.node], ok |-> FALSE, panic |-> l.panic]
           ELSE AndSkipLeft([op EXCEPT !.Left = l.node], ch)

\* The loop of query.go:85-89.
RECURSIVE AndSkipRight(_, _)
AndSkipRight(op, ch) ==
  IF ~(Current(op.Right) > Current(op.Left))
  THEN [op |-> op, ok |-> TRUE, panic |-> FALSE]
  ELSE LET r == MoveNext(op.Right, ch)
       IN  IF r.panic \/ ~r.ok
           THEN [op |-> [op EXCEPT !.Right = r.node], ok |-> FALSE, panic |-> r.panic]
           ELSE AndSkipRight([op EXCEPT !.Right = r.node], ch)

\* The loop of query.go:78-90.
RECURSIVE AndAlign(_, _)
AndAlign(op, ch) ==
  IF Current(op.Left) = Current(op.Right)
  THEN [op |-> op, ok |-> TRUE, panic |-> FALSE]
  ELSE LET a == AndSkipLeft(op, ch)
       IN  IF ~a.ok THEN a
           ELSE LET b == AndSkipRight(a.op, ch)
                IN  IF ~b.ok THEN b ELSE AndAlign(b.op, ch)

\* AndOperator.nextMatch (query.go:73-93): the operator, the value, success and
\* whether it panicked. Right.MoveNext is not called when Left.MoveNext
\* returns false.
nextMatch(op, ch) ==
  LET l == MoveNext(op.Left, ch)
      opL == [op EXCEPT !.Left = l.node]
  IN  IF l.panic \/ ~l.ok
      THEN [op |-> opL, value |-> 0, success |-> FALSE, panic |-> l.panic]
      ELSE LET r == MoveNext(op.Right, ch)
               opR == [opL EXCEPT !.Right = r.node]
           IN  IF r.panic \/ ~r.ok
               THEN [op |-> opR, value |-> 0, success |-> FALSE, panic |-> r.panic]
               ELSE LET a == AndAlign(opR, ch)
                    IN  [op |-> a.op,
                         value |-> IF a.ok THEN Current(a.op.Left) ELSE 0,
                         success |-> a.ok, panic |-> a.panic]

\* AndOperator.NextChunk (query.go:95-106), from loop index i on.
RECURSIVE AndLoop(_, _, _, _)
AndLoop(op, buffer, i, ch) ==
  IF ~(i < queryBufferSize)
  THEN [op |-> op, buffer |-> buffer, n |-> i, panic |-> FALSE]
  ELSE LET m == nextMatch(op, ch)
       IN  IF m.panic \/ ~m.success
           THEN [op |-> m.op, buffer |-> buffer, n |-> i, panic |-> m.panic]
           ELSE AndLoop(m.op, [buffer EXCEPT ![i] = m.value], i + 1, ch)

\* OrOperator.NextChunk, the loop of query.go:124-139.
RECURSIVE OrMerge(_, _, _, _)
OrMerge(op, buffer, i, ch) ==
  IF ~(i < queryBufferSize /\ ~Done(op.Left) /\ ~Done(op.Right))
  THEN [op |-> op, buffer |-> buffer, n |-> i, panic |-> FALSE]
  ELSE IF Current(op.Left) > Current(op.Right)
  THEN LET l == MoveNext(op.Left, ch)
           b == [buffer EXCEPT ![i] = Current(op.Left)]
       IN  IF l.panic
           THEN [op |-> [op EXCEPT !.Left = l.node], buffer |-> b, n |-> i,
                 panic |-> TRUE]
           ELSE OrMerge([op EXCEPT !.Left = l.node], b, i + 1, ch)
  ELSE IF Current(op.Right) > Current(op.Left)
  THEN LET r == MoveNext(op.Right, ch)
           b == [buffer EXCEPT ![i] = Current(op.Right)]
       IN  IF r.panic
           THEN [op |-> [op EXCEPT !.Right = r.node], buffer |-> b, n |-> i,
                 panic |-> TRUE]
           ELSE OrMerge([op EXCEPT !.Right = r.node], b, i + 1, ch)
  ELSE LET l == MoveNext(op.Left, ch)
           b == [buffer EXCEPT ![i] = Current(op.Left)]
       IN  IF l.panic
           THEN [op |-> [op EXCEPT !.Left = l.node], buffer |-> b, n |-> i,
                 panic |-> TRUE]
           ELSE LET r == MoveNext(op.Right, ch)
                    o == [op EXCEPT !.Left = l.node, !.Right = r.node]
                IN  IF r.panic
                    THEN [op |-> o, buffer |-> b, n |-> i, panic |-> TRUE]
                    ELSE OrMerge(o, b, i + 1, ch)

\* The loop of query.go:140-144.
RECURSIVE OrDrainLeft(_, _, _, _)
OrDrainLeft(op, buffer, i, ch) ==
  IF ~(i < queryBufferSize /\ ~Done(op.Left))
  THEN [op |-> op, buffer |-> buffer, n |-> i, panic |-> FALSE]
  ELSE LET l == MoveNext(op.Left, ch)
           b == [buffer EXCEPT ![i] = Current(op.Left)]
       IN  IF l.panic
           THEN [op |-> [op EXCEPT !.Left = l.node], buffer |-> b, n |-> i,
                 panic |-> TRUE]
           ELSE OrDrainLeft([op EXCEPT !.Left = l.node], b, i + 1, ch)

\* The loop of query.go:145-149.
RECURSIVE OrDrainRight(_, _, _, _)
OrDrainRight(op, buffer, i, ch) ==
  IF ~(i < queryBufferSize /\ ~Done(op.Right))
  THEN [op |-> op, buffer |-> buffer, n |-> i, panic |-> FALSE]
  ELSE LET r == MoveNext(op.Right, ch)
           b == [buffer EXCEPT ![i] = Current(op.Right)]
       IN  IF r.panic
           THEN [op |-> [op EXCEPT !.Right = r.node], buffer |-> b, n |-> i,
                 panic |-> TRUE]
           ELSE OrDrainRight([op EXCEPT !.Right = r.node], b, i + 1, ch)

\* OrOperator.NextChunk, query.go:118-121: Started() is true of a node whose
\* length is still beforeStartedLength, so the children are advanced here on
\* every call but the one that finds Left untouched.
OrStart(op, ch) ==
  IF ~Started(op.Left)
  THEN LET l == MoveNext(op.Left, ch)
       IN  IF l.panic
           THEN [op |-> [op EXCEPT !.Left = l.node], panic |-> TRUE]
           ELSE LET r == MoveNext(op.Right, ch)
                IN  [op |-> [op EXCEPT !.Left = l.node, !.Right = r.node],
                     panic |-> r.panic]
  ELSE [op |-> op, panic |-> FALSE]

\* OrOperator.NextChunk (query.go:117-151).
OrNextChunk(op, buffer, ch) ==
  LET s == OrStart(op, ch)
  IN  IF s.panic
      THEN [op |-> s.op, buffer |-> buffer, n |-> 0, panic |-> TRUE]
      ELSE LET m == OrMerge(s.op, buffer, 0, ch)
           IN  IF m.panic THEN m
               ELSE LET l == OrDrainLeft(m.op, m.buffer, m.n, ch)
                    IN  IF l.panic THEN l
                        ELSE OrDrainRight(l.op, l.buffer, l.n, ch)

\* QueryOperator.NextChunk (query.go:7-9), by the operator's type.
NextChunk(op, buffer, ch) ==
  IF op.kind = "terminal" THEN TerminalLoop(op, buffer, 0, ch)
  ELSE IF op.kind = "and" THEN AndLoop(op, buffer, 0, ch)
  ELSE OrNextChunk(op, buffer, ch)

\* ------------------------------------------------------------ ParseQuery
\* query[i] and query[a:b] of a Go string, whose bytes are numbered from 0.
At(query, i) == query[i + 1]
Slice(query, a, b) == SubSeq(query, a + 1, b)

ParseError(position, message) == [Position |-> position, Message |-> message]

\* opStack.Push and opStack.Pop (query.go:164-176): the top is the last element.
Push(stack, op) == Append(stack, op)
Top(stack) == stack[Len(stack)]
Pop(stack) == SubSeq(stack, 1, Len(stack) - 1)

\* for i < len(query) && query[i] != '"' { i++ } (query.go:195-197).
RECURSIVE ScanToQuote(_, _)
ScanToQuote(query, i) ==
  IF i < Len(query) /\ At(query, i) # "\"" THEN ScanToQuote(query, i + 1) ELSE i

\* A plausible slip: one operand is taken to be enough for an operator.
NeedsOperandsOne(stack) == Len(stack) < 1

\* if stack.Length() < 2 (query.go:182, 187).
NeedsOperands(stack) == Len(stack) < 2

\* opStack.Pop panics with "Stack underflow" on an empty stack (query.go:169-171).
PopPanics(stack) == Len(stack) < 1

\* A plausible slip: a character that is no token is skipped, as white space
\* would be.
SkippedCharacter(i, stack) ==
  [i |-> i + 1, stack |-> stack, err |-> NoError, panic |-> FALSE]

\* return nil, ParseError{i, "Unexpected character"} (query.go:204-206).
UnexpectedCharacter(i, stack) ==
  [i |-> i, stack |-> stack, err |-> ParseError(i, "Unexpected character"),
   panic |-> FALSE]

\* The branch of an operator character (query.go:181-190): message is the
\* error of that operator and New its constructor's kind. Go evaluates the two
\* stack.Pop() arguments left to right, so the operator on top of the stack
\* becomes the left child.
OperatorToken(i, stack, message, kind) ==
  IF NeedsOperands(stack)
  THEN [i |-> i, stack |-> stack, err |-> ParseError(i, message), panic |-> FALSE]
  ELSE IF PopPanics(stack) \/ PopPanics(Pop(stack))
  THEN [i |-> i, stack |-> <<>>, err |-> NoError, panic |-> TRUE]
  ELSE [i |-> i + 1,
        stack |-> Push(Pop(Pop(stack)),
                       IF kind = "and"
                       THEN NewAndOperator(Top(stack), Top(Pop(stack)))
                       ELSE NewOrOperator(Top(stack), Top(Pop(stack)))),
        err |-> NoError, panic |-> FALSE]

\* The term looked up for the literal whose opening quote is at index i:
\* query[start:i] after i++; start := i; i++ and the scan (query.go:192-202).
LiteralTerm(query, i) == Slice(query, i + 1, ScanToQuote(query, i + 2))

\* The branch of a quote character (query.go:191-203).
LiteralToken(query, i, stack, st, ps, ch) ==
  LET start == i + 1
      end   == ScanToQuote(query, start + 1)
  IN  IF end >= Len(query)
      THEN [i |-> end, stack |-> stack,
            err |-> ParseError(start - 1, "Unterminated string constant"),
            panic |-> FALSE]
      ELSE [i |-> end + 1,
            stack |-> Push(stack,
                        NewTerminalOperator(
                          findSetChunkForQuery(st, ps, Slice(query, start, end)), ch)),
            err |-> NoError, panic |-> FALSE]

\* One iteration of the loop of ParseQuery (query.go:180-207) at index i with
\* the given stack: the next index, the stack, the error returned, if any, and
\* whether the iteration panicked.
ParseToken(query, i, stack, st, ps, ch) ==
  IF At(query, i) = "&"
  THEN OperatorToken(i, stack, "Need two operands for &", "and")
  ELSE IF At(query, i) = "|"
  THEN OperatorToken(i, stack, "Need two operands for |", "or")
  ELSE IF At(query, i) = "\""
  THEN LiteralToken(query, i, stack, st, ps, ch)
  ELSE UnexpectedCharacter(i, stack)

\* A plausible slip: one or more operands left are accepted.
ParseEndAtLeastOne(query, stack) ==
  IF Len(stack) < 1
  THEN [tree |-> FALSE, root |-> <<>>,
        err |-> ParseError(Len(query), "Unterminated query")]
  ELSE [tree |-> TRUE, root |-> NewQueryNode(Top(stack)), err |-> NoError]

\* The end of ParseQuery (query.go:208-211), the input consumed.
ParseEnd(query, stack) ==
  IF Len(stack) # 1
  THEN [tree |-> FALSE, root |-> <<>>,
        err |-> ParseError(Len(query), "Unterminated query")]
  ELSE [tree |-> TRUE, root |-> NewQueryNode(Top(stack)), err |-> NoError]

\* ParseQuery (query.go:178-211) from index i on: whether a tree is returned,
\* the tree, the error and whether the call panicked.
RECURSIVE ParseLoop(_, _, _, _, _, _)
ParseLoop(query, i, stack, st, ps, ch) ==
  IF i < Len(query)
  THEN LET r == ParseToken(query, i, stack, st, ps, ch)
       IN  IF r.panic \/ r.err # NoError
           THEN [tree |-> FALSE, root |-> <<>>, err |-> r.err, panic |-> r.panic]
           ELSE ParseLoop(query, r.i, r.stack, st, ps, ch)
  ELSE LET e == ParseEnd(query, stack)
       IN  [tree |-> e.tree, root |-> e.root, err |-> e.err, panic |-> FALSE]

ParseQuery(query, st, ps, ch) == ParseLoop(query, 0, <<>>, st, ps, ch)

\* The quoted literal of a term.
Quoted(term) == <<"\"">> \o term \o <<"\"">>

\* randomQuery (index_test.go:82-97): the queries it can build from words.
RECURSIVE RandomQueries(_)
RandomQueries(words) ==
  IF Len(words) = 1 THEN {Quoted(words[1])}
  ELSE LET wl  == Len(words)
           mid == wl \div 2
       IN  {l \o r \o <<o>> :
              l \in RandomQueries(SubSeq(words, 1, mid)),
              r \in RandomQueries(SubSeq(words, mid + 1, wl)),
              o \in {"&", "|"}}

\* The queries and limits QueryPosts is called with.
QueryStrings == UNION {RandomQueries(ws) : ws \in {w \in WordLists : Len(w) >= 1}}
TestLimit == 100
Limits == {2, 10, TestLimit}

\* translate (spec 4.B.2, 4.D step 3): the global ids of the local ids that
\* have a mapping, in order.
RECURSIVE Translate(_, _)
Translate(mp, locals) ==
  IF locals = <<>> THEN <<>>
  ELSE (IF MapHas(mp, locals[1]) THEN <<mp.m[locals[1]]>> ELSE <<>>)
       \o Translate(mp, SubSeq(locals, 2, Len(locals)))

\* QueryPosts, step 2 of spec 4.D, as a whole: ids are pulled from the root
\* until limit of them are collected, the root is at its end, or the pipeline
\* panics.
RECURSIVE Drain(_, _, _, _)
Drain(node, locals, limit, ch) ==
  IF Len(locals) >= limit THEN [locals |-> locals, panic |-> FALSE]
  ELSE LET r == MoveNext(node, ch)
       IN  IF r.panic THEN [locals |-> locals, panic |-> TRUE]
           ELSE IF ~r.ok THEN [locals |-> locals, panic |-> FALSE]
           ELSE Drain(r.node, Append(locals, Current(r.node)), limit, ch)

\* QueryPosts(query, limit) on an index that no AddPost call changes meanwhile
\* (spec 4.D): the result, the error and whether the call panicked.
RunQuery(query, limit, st, ps, ch, mp) ==
  LET t == ParseQuery(query, st, ps, ch)
  IN  IF ~t.tree
      THEN [result |-> <<>>, err |-> t.err, panic |-> t.panic]
      ELSE LET d == Drain(t.root, <<>>, limit, ch)
           IN  [result |-> IF d.panic THEN <<>> ELSE Translate(mp, d.locals),
                err |-> NoError, panic |-> d.panic]

\* ----------------------------------------------------- PostIndex.AddPost
\* Where AddPost continues once findOrCreateSets has returned n sets: the lock
\* loop (index.go:156), or past it when there is nothing to lock.
AfterFind(n) == IF n = 0 THEN "alloc" ELSE "lock"

\* The call begins: words are copied and sorted (index.go:151-153). Calls are
\* numbered in the order they begin.
BeginCall(p, ws) ==
  /\ pc[p] = "init"
  /\ IF p = 1 THEN TRUE ELSE pc[p - 1] # "init"
  /\ call' = [call EXCEPT ![p] =
       [id |-> GlobalIdOf(p), words |-> ws, sortedWords |-> SortStrings(ws),
        sets |-> [i \in 1..Len(ws) |-> NilRef], needWrite |-> FALSE,
        i |-> 0, localId |-> 0, firstChunk |-> NilRef,
        after |-> {q \in Calls : pc[q] = "done"}]]
  /\ pc' = [pc EXCEPT ![p] = "find"]
  /\ UNCHANGED <<nextLocalId, sets, idMap, postSets, chunks, qpc, qry>>

\* AddPost is called while other calls may be running.
AddPostBegin(p) ==
  /\ p <= NumCalls
  /\ pc[p] = "init"
  /\ \E ws \in WordLists : BeginCall(p, ws)

\* findOrCreateSets, first pass (index.go:78-89).
FindRead(p) ==
  /\ pc[p] = "find"
  /\ LET sw == call[p].sortedWords
         nw == FindReadNeedWrite(sets, sw)
     IN  /\ call' = [call EXCEPT ![p].sets = FindReadSets(sets, sw),
                                 ![p].needWrite = nw, ![p].i = 1]
         /\ pc' = [pc EXCEPT ![p] = IF nw THEN "create" ELSE AfterFind(Len(sw))]
  /\ UNCHANGED <<nextLocalId, sets, idMap, postSets, chunks, qpc, qry>>

\* findOrCreateSets, second pass (index.go:95-110); needWrite is gone when
\* findOrCreateSets returns.
FindWrite(p) ==
  /\ pc[p] = "create"
  /\ LET sw == call[p].sortedWords
         r  == CreateLoop(sw, 1, [local |-> call[p].sets, map |-> MapMake(sets),
                                  ps |-> postSets, ch |-> chunks])
     IN  /\ sets' = r.map
         /\ postSets' = r.ps
         /\ chunks' = r.ch
         /\ call' = [call EXCEPT ![p].sets = r.local, ![p].needWrite = FALSE,
                                 ![p].i = 1]
         /\ pc' = [pc EXCEPT ![p] = AfterFind(Len(sw))]
  /\ UNCHANGED <<nextLocalId, idMap, qpc, qry>>

\* for _, v := range sets { v.SyncRoot.Lock(); defer v.SyncRoot.Unlock() }
\* (index.go:156-159): one iteration.
LockSet(p) ==
  /\ pc[p] = "lock"
  /\ LET c == call[p]
     IN  /\ SyncRootFree(postSets, c.sets[c.i])
         /\ postSets' = [postSets EXCEPT ![c.sets[c.i]].SyncRoot = p]
         /\ call' = [call EXCEPT ![p].i = c.i + 1]
         /\ pc' = [pc EXCEPT ![p] = IF c.i = Len(c.sets) THEN "alloc" ELSE "lock"]
  /\ UNCHANGED <<nextLocalId, sets, idMap, chunks, qpc, qry>>

\* index.go:161.
AllocLocalId(p) ==
  /\ pc[p] = "alloc"
  /\ nextLocalId' = AddInt32(nextLocalId, 1)
  /\ call' = [call EXCEPT ![p].localId = LocalIdFrom(nextLocalId, nextLocalId')]
  /\ pc' = [pc EXCEPT ![p] = "map"]
  /\ UNCHANGED <<sets, idMap, postSets, chunks, qpc, qry>>

\* index.go:162; with no set to append to, the call returns.
AddMapping(p) ==
  /\ pc[p] = "map"
  /\ idMap' = addIdMapping(idMap, call[p].id, call[p].localId)
  /\ call' = [call EXCEPT ![p].i = 1]
  /\ pc' = [pc EXCEPT ![p] = IF Len(call[p].sets) = 0 THEN "done" ELSE "append"]
  /\ UNCHANGED <<nextLocalId, sets, postSets, chunks, qpc, qry>>

\* Where the append loop (index.go:164-166) continues after set number i of n.
AfterAppend(i, n) == IF i = n THEN "unlock" ELSE "append"

\* A plausible slip: the head chunk is taken to be full one slot early.
ChunkFullEarly(length) == length >= ChunkSize - 1

\* if firstChunk.Length == ChunkSize (index.go:30).
ChunkFull(length) == length = ChunkSize

\* PostSet.AddPost up to its store (index.go:29-34): the push of a new head
\* chunk, or the write of the slot.
AppendSlot(p) ==
  /\ pc[p] = "append"
  /\ LET c  == call[p]
         s  == c.sets[c.i]
         fc == FirstChunk(postSets, s)
     IN  IF ChunkFull(chunks[fc].Length)
         THEN /\ chunks' = Append(chunks, PushedChunk(c.localId, fc))
              /\ postSets' = [postSets EXCEPT ![s].firstChunk = Len(chunks) + 1]
              /\ call' = [call EXCEPT ![p].i =
                            IF c.i = Len(c.sets) THEN c.i ELSE c.i + 1]
              /\ pc' = [pc EXCEPT ![p] = AfterAppend(c.i, Len(c.sets))]
         ELSE /\ chunks' = [chunks EXCEPT ![fc].IDs[chunks[fc].Length] = c.localId]
              /\ call' = [call EXCEPT ![p].firstChunk = fc]
              /\ pc' = [pc EXCEPT ![p] = "publish"]
              /\ UNCHANGED postSets
  /\ UNCHANGED <<nextLocalId, sets, idMap, qpc, qry>>

\* atomic.AddInt32(&firstChunk.Length, 1) (index.go:35); PostSet.AddPost
\* returns and its firstChunk is gone.
PublishLength(p) ==
  /\ pc[p] = "publish"
  /\ LET c  == call[p]
         fc == c.firstChunk
     IN  /\ chunks' = [chunks EXCEPT ![fc].Length = AddInt32(chunks[fc].Length, 1)]
         /\ call' = [call EXCEPT ![p].i = IF c.i = Len(c.sets) THEN c.i ELSE c.i + 1,
                                 ![p].firstChunk = NilRef]
         /\ pc' = [pc EXCEPT ![p] = AfterAppend(c.i, Len(c.sets))]
  /\ UNCHANGED <<nextLocalId, sets, idMap, postSets, qpc, qry>>

\* The deferred v.SyncRoot.Unlock() calls run last-in first-out at the return
\* (index.go:158, 167): one unlock. With the last one AddPost has returned; its
\* slices are gone, and id, words, localId and after remain as the record of
\* the call.
UnlockSet(p) ==
  /\ pc[p] = "unlock"
  /\ LET c == call[p]
     IN  /\ postSets' = [postSets EXCEPT ![c.sets[c.i]].SyncRoot = 0]
         /\ IF c.i = 1
            THEN /\ call' = [call EXCEPT ![p].i = 0, ![p].sets = <<>>,
                                         ![p].sortedWords = <<>>]
                 /\ pc' = [pc EXCEPT ![p] = "done"]
            ELSE /\ call' = [call EXCEPT ![p].i = c.i - 1]
                 /\ UNCHANGED pc
  /\ UNCHANGED <<nextLocalId, sets, idMap, chunks, qpc, qry>>

AddPostStep(p) ==
  \/ FindRead(p)
  \/ FindWrite(p)
  \/ LockSet(p)
  \/ AllocLocalId(p)
  \/ AddMapping(p)
  \/ AppendSlot(p)
  \/ PublishLength(p)
  \/ UnlockSet(p)

Next == \E p \in Calls : AddPostBegin(p) \/ AddPostStep(p)

\* Concurrent AddPost calls with any term lists.
Spec == Init /\ [][Next]_vars


\* AddPost is called with a term list free of repeated terms.
AddPostBeginNoDup(p) ==
  /\ p <= NumCalls
  /\ pc[p] = "init"
  /\ \E ws \in WordLists :
       /\ \A i, j \in 1..Len(ws) : i # j => ws[i] # ws[j]
       /\ BeginCall(p, ws)

NextNoDup == \E p \in Calls : AddPostBeginNoDup(p) \/ AddPostStep(p)

\* Concurrent AddPost calls with term lists free of repeats; every goroutine
\* that can take a step eventually does (the Go scheduler runs every runnable
\* goroutine, and sync.Mutex wakes its waiters).
SpecNoDup ==
  Init /\ [][NextNoDup]_vars /\ \A p \in Calls : WF_vars(AddPostStep(p))

\* AddPost is called with any term list while other calls, ListCalls in all,
\* may be running.
AddPostBeginList(p) ==
  /\ p <= ListCalls
  /\ pc[p] = "init"
  /\ \E ws \in WordLists : BeginCall(p, ws)

NextList == \E p \in Calls : AddPostBeginList(p) \/ AddPostStep(p)

\* ListCalls concurrent AddPost calls (the goroutines of b.RunParallel,
\* index_test.go:147-153): enough of them for a list to fill a chunk with
\* several ids and to push a new head chunk.
SpecList == Init /\ [][NextList]_vars

\* ------------------------------------------------------------ QueryPosts
\* QueryPosts(query, limit) is called (index_test.go:131); after and begun
\* record which AddPost calls had returned and which had begun by then.
QueryCall(qs, limit) ==
  /\ qpc = "init"
  /\ qry' = [IdleQuery EXCEPT !.query = qs, !.limit = limit,
                              !.after = {p \in Calls : pc[p] = "done"},
                              !.begun = {p \in Calls : pc[p] # "init"}]
  /\ qpc' = "parse"
  /\ UNCHANGED <<nextLocalId, sets, idMap, postSets, chunks, pc, call>>

\* A query is made between two AddPost calls, with any of the limits.
QueryBegin ==
  /\ qpc = "init"
  /\ \A r \in Calls : pc[r] \in {"init", "done"}
  /\ \E qs \in QueryStrings, limit \in Limits : QueryCall(qs, limit)

\* A query is made at any time, with the limit of the tests.
QueryBeginAnyTime ==
  /\ qpc = "init"
  /\ \E qs \in QueryStrings : QueryCall(qs, TestLimit)

\* ParseQuery (query.go:178-212): one iteration of its loop, or its end
\* (query.go:208-211). A parse error ends QueryPosts.
QueryParse ==
  /\ qpc = "parse"
  /\ IF qry.i < Len(qry.query)
     THEN LET r == ParseToken(qry.query, qry.i, qry.stack, sets, postSets, chunks)
          IN  /\ qry' = [qry EXCEPT !.i = r.i, !.stack = r.stack, !.err = r.err]
              /\ qpc' = IF r.panic THEN "panic"
                        ELSE IF r.err = NoError THEN "parse" ELSE "done"
     ELSE LET e == ParseEnd(qry.query, qry.stack)
          IN  IF e.tree
              THEN /\ qry' = [qry EXCEPT !.root = e.root, !.stack = Pop(qry.stack)]
                   /\ qpc' = "pull"
              ELSE /\ qry' = [qry EXCEPT !.err = e.err]
                   /\ qpc' = "done"
  /\ UNCHANGED <<nextLocalId, sets, idMap, postSets, chunks, pc, call>>

\* QueryPosts, step 2 of spec 4.D: one more local id is taken from the root
\* unless limit ids are collected or the root is at its end. A panic in the
\* pipeline ends the call.
QueryPull ==
  /\ qpc = "pull"
  /\ IF Len(qry.locals) >= qry.limit
     THEN /\ qpc' = "translate"
          /\ UNCHANGED qry
     ELSE LET r == MoveNext(qry.root, chunks)
          IN  /\ qry' = [qry EXCEPT !.root = r.node,
                           !.locals = IF r.ok THEN Append(qry.locals, Current(r.node))
                                      ELSE qry.locals]
              /\ qpc' = IF r.panic THEN "panic"
                        ELSE IF r.ok THEN "pull" ELSE "translate"
  /\ UNCHANGED <<nextLocalId, sets, idMap, postSets, chunks, pc, call>>

\* QueryPosts, steps 3 and 4 of spec 4.D.
QueryTranslate ==
  /\ qpc = "translate"
  /\ qry' = [qry EXCEPT !.result = Translate(idMap, qry.locals)]
  /\ qpc' = "done"
  /\ UNCHANGED <<nextLocalId, sets, idMap, postSets, chunks, pc, call>>

QueryStep == QueryParse \/ QueryPull \/ QueryTranslate

\* AddPost is called when no other AddPost call is running.
AddPostBeginAlone(p, n) ==
  /\ p <= n
  /\ pc[p] = "init"
  /\ \A r \in Calls : pc[r] \in {"init", "done"}
  /\ \E ws \in WordLists : BeginCall(p, ws)

NextQ ==
  \/ \E p \in Calls : AddPostBegin(p) \/ AddPostStep(p)
  \/ QueryBeginAnyTime
  \/ QueryStep

\* AddPost calls that overlap each other, and one QueryPosts call that runs
\* concurrently with them: the goroutines of b.RunParallel
\* (index_test.go:204-215).
SpecQ == Init /\ [][NextQ]_vars

\* An AddPost call begins when the query, if made, has returned or panicked.
AddPostBeginAfterQuery(p) ==
  /\ qpc \in {"init", "done", "panic"}
  /\ AddPostBeginAlone(p, SeqCalls)

NextSeq ==
  \/ \E p \in Calls : AddPostBeginAfterQuery(p) \/ AddPostStep(p)
  \/ QueryBegin
  \/ QueryStep

\* AddPost calls and one QueryPosts call made one after the other by a single
\* caller, as in the tests.
SpecSeq == Init /\ [][NextSeq]_vars

\* An AddPost call, one of SeqCalls, begins when no other call of any kind is
\* running.
AddPostBeginTest(p) ==
  /\ qpc \in {"init", "done", "panic"}
  /\ AddPostBeginAlone(p, SeqCalls)

\* QueryPosts is called with the limit of the tests when no AddPost call is
\* running.
QueryBeginTest ==
  /\ qpc = "init"
  /\ \A r \in Calls : pc[r] \in {"init", "done"}
  /\ \E qs \in QueryStrings : QueryCall(qs, TestLimit)

NextTest ==
  \/ \E p \in Calls : AddPostBeginTest(p) \/ AddPostStep(p)
  \/ QueryBeginTest
  \/ QueryStep

\* SeqCalls AddPost calls and one QueryPosts call with limit 100, made one
\* after the other.
SpecTest == Init /\ [][NextTest]_vars

\* The characters of the queries given to the parser alone: the three tokens,
\* a letter and the space.
QueryChars == {"\"", "a", "&", "|", " "}
AnyQueries == UNION {[1..n -> QueryChars] : n \in 0..MaxQueryLen}

\* QueryPosts is called on a new index with any string as its query.
ParseBegin ==
  /\ qpc = "init"
  /\ \E qs \in AnyQueries : QueryCall(qs, TestLimit)

NextParse ==
  \/ ParseBegin
  \/ QueryStep

\* One QueryPosts call on a new index, the query being any string.
SpecParse == Init /\ [][NextParse]_vars

\* ------------------------------------------------------------ properties
Range(f) == {f[x] : x \in DOMAIN f}

\* Calls that hold a local id.
Allocated == {p \in Calls : pc[p] \in {"map", "append", "publish", "unlock", "done"}}

\* The PostSet refs held locked by call p.
HeldBy(p) == {s \in 1..Len(postSets) : postSets[s].SyncRoot = p}

\* The ids of the posting list of term t, oldest first; empty for an unknown term.
TermIds(t) == ListIds(chunks, findSetChunkForQuery(sets, postSets, t))

\* C1: in every reachable state under concurrent AddPost calls every posting
\* list is strictly ascending in local id: the valid prefix of every chunk lies
\* inside the chunk and is strictly increasing, and every id of a newer chunk
\* is greater than every id of every older chunk of the list.
C1_ListsAscending ==
  \A s \in 1..Len(postSets) :
    LET chain == ChunkChain(chunks, FirstChunk(postSets, s))
    IN  /\ \A n \in 1..Len(chain) :
             LET c == chunks[chain[n]]
             IN  /\ c.Length \in 0..ChunkSize
                 /\ \A i, j \in 0..(c.Length - 1) : i < j => c.IDs[i] < c.IDs[j]
        /\ \A n, o \in 1..Len(chain) :
             n < o =>
               /\ chunks[chain[n]].Length \in 0..ChunkSize
               /\ chunks[chain[o]].Length \in 0..ChunkSize
               /\ \A i \in 0..(chunks[chain[n]].Length - 1) :
                    \A j \in 0..(chunks[chain[o]].Length - 1) :
                      chunks[chain[n]].IDs[i] > chunks[chain[o]].IDs[j]

\* Three calls that overlapped in time all appended to one list: its older
\* chunk holds two ids, written by the slot write and the Length increment,
\* and its head chunk, pushed when the older one was full, holds the third.
C1_Witness ==
  /\ \A p \in 1..3 : pc[p] = "done" /\ call[p].after = {}
  /\ \E s \in 1..Len(postSets) :
       LET chain == ChunkChain(chunks, FirstChunk(postSets, s))
       IN  /\ Len(chain) >= 2
           /\ chunks[chain[1]].Length >= 1
           /\ chunks[chain[2]].Length >= 2

\* C3: once AddPost has returned, its local id is in the valid prefix of the
\* list that findSetChunkForQuery hands to a query tree, for every term of the
\* call, in that state and in every later one.
C3_VisibleAfterReturn ==
  \A p \in Calls :
    pc[p] = "done" =>
      \A t \in Range(call[p].words) :
        /\ findSetChunkForQuery(sets, postSets, t) # NilRef
        /\ call[p].localId \in Range(TermIds(t))

\* A returned call with two different terms, and a later call that has pushed a
\* new head chunk onto one of its lists: the call's id is in the chunk behind
\* the head.
C3_Witness ==
  \E p \in Calls :
    /\ pc[p] = "done"
    /\ Cardinality(Range(call[p].words)) = 2
    /\ \E t \in Range(call[p].words) :
         LET head == findSetChunkForQuery(sets, postSets, t)
         IN  /\ Len(TermIds(t)) >= 2
             /\ chunks[head].Next # NilRef
             /\ \E k \in 0..(chunks[chunks[head].Next].Length - 1) :
                  chunks[chunks[head].Next].IDs[k] = call[p].localId

\* C4: every local id in the valid prefix of a chunk has an idMap entry, and
\* the entry is the global id of the call that was given that local id.
C4_ListedIdsResolve ==
  \A c \in 1..Len(chunks) :
    \A k \in 0..(chunks[c].Length - 1) :
      LET l == chunks[c].IDs[k]
      IN  /\ MapHas(idMap, l)
          /\ \E p \in Allocated : call[p].localId = l
          /\ \A p \in Allocated : call[p].localId = l => idMap.m[l] = call[p].id

\* An id is already listed while the call that appends it is still running.
C4_Witness ==
  \E p \in Calls :
    /\ pc[p] \in {"append", "unlock"}
    /\ \E c \in 1..Len(chunks) :
         \E k \in 0..(chunks[c].Length - 1) : chunks[c].IDs[k] = call[p].localId

\* C6: a call whose term list repeats a term never waits for a per-list lock
\* that it holds itself (it returns, having appended its id once per list).
C6_NoSelfWait ==
  \A p \in Calls :
    pc[p] = "lock" => postSets[call[p].sets[call[p].i]].SyncRoot # p

\* C7: when the calls made have all returned, every term's list holds as many
\* ids as there are calls whose term list contains the term, and they are the
\* local ids of those calls: none is lost and none is overwritten.
C7_NoLostAppend ==
  (\A p \in Calls : pc[p] \in {"init", "done"}) =>
    \A t \in Words :
      LET named == {p \in Calls : pc[p] = "done" /\ t \in Range(call[p].words)}
      IN  /\ Len(TermIds(t)) = Cardinality(named)
          /\ Range(TermIds(t)) = {call[p].localId : p \in named}

\* Three calls that overlapped in time have returned, all naming one term, the
\* second append having filled the chunk and the third having pushed a new head
\* chunk.
C7_Witness ==
  /\ \A p \in 1..3 : pc[p] = "done" /\ call[p].after = {}
  /\ \E t \in Range(call[1].words) \cap Range(call[2].words) \cap Range(call[3].words) :
       /\ Len(TermIds(t)) = 3
       /\ Len(ChunkChain(chunks, findSetChunkForQuery(sets, postSets, t))) = 2

\* C9: the local ids given out are exactly 1..nextLocalId, one per call and
\* pairwise distinct, and a call that began after another had returned holds
\* the larger id.
C9_LocalIdsDistinct ==
  /\ nextLocalId = Cardinality(Allocated)
  /\ {call[p].localId : p \in Allocated} = 1..nextLocalId
  /\ \A p, q \in Allocated : p # q => call[p].localId # call[q].localId
  /\ \A p \in Allocated : \A q \in call[p].after : call[q].localId < call[p].localId

\* Two calls hold ids, the second having begun after the first returned.
C9_Witness ==
  /\ nextLocalId = 2
  /\ 2 \in Allocated
  /\ 1 \in call[2].after

\* Locks are taken in ascending term order: a call in its lock loop holds the
\* sets of the terms before position i, each smaller than the next.
LockOrder ==
  \A p \in Calls :
    pc[p] = "lock" =>
      /\ HeldBy(p) = {call[p].sets[j] : j \in 1..(call[p].i - 1)}
      /\ \A j \in 1..(Len(call[p].sortedWords) - 1) :
           StringLess(call[p].sortedWords[j], call[p].sortedWords[j + 1])

\* C5: concurrent AddPost calls with term lists free of repeats take their
\* locks in ascending term order and never deadlock: while a call is running
\* some running call can take its next step (every step moves a call forward
\* through finitely many positions, so every call returns), and a call that
\* has returned holds no lock.
C5_NoDeadlock ==
  /\ LockOrder
  /\ (\E p \in Calls : pc[p] \notin {"init", "done"}) =>
       \E p \in Calls : ENABLED AddPostStep(p)
  /\ \A p \in Calls : pc[p] = "done" => HeldBy(p) = {}

\* A call waits for a list that another call holds locked.
C5_Witness ==
  \E p, q \in Calls :
    /\ p # q
    /\ pc[p] = "lock"
    /\ postSets[call[p].sets[call[p].i]].SyncRoot = q

\* The QueryPosts call has ended, by returning or by panicking.
QueryEnded == qpc \in {"done", "panic"}

\* ParseQuery has returned a tree.
HasTree ==
  qpc \in {"pull", "translate", "panic"} \/ (qpc = "done" /\ qry.err = NoError)

\* The TerminalOperators of an operator tree.
RECURSIVE Terminals(_)
Terminals(op) ==
  IF op.kind = "terminal" THEN {op}
  ELSE Terminals(op.Left.op) \cup Terminals(op.Right.op)

Reverse(seq) == [k \in 1..Len(seq) |-> seq[Len(seq) + 1 - k]]
IsPrefix(a, b) == Len(a) <= Len(b) /\ \A k \in 1..Len(a) : a[k] = b[k]

\* The AddPost call that passed global id g.
CallOf(g) == CHOOSE p \in Calls : call[p].id = g

\* C2: on an index that has seen one AddPost(id, words) with non-empty words,
\* which has returned, QueryPosts with limit 100 on a query that randomQuery
\* builds from words returns no error and the result [id].
C2_SingleAddThenQuery ==
  ( /\ QueryEnded
    /\ qry.begun = {1} /\ qry.after = {1}
    /\ Len(call[1].words) >= 1
    /\ qry.query \in RandomQueries(call[1].words)
    /\ qry.limit = TestLimit )
  => (qpc = "done" /\ qry.err = NoError /\ qry.result = <<call[1].id>>)

\* C8: what a TerminalOperator has emitted is what its list held in its valid
\* prefix when the tree was created, newest first: it never emits an id that
\* was appended later, whatever the appends that run beside the traversal.
C8_EmitsSnapshotOnly ==
  HasTree =>
    \A t \in Terminals(qry.root.op) : IsPrefix(t.emitted, Reverse(t.snap))

\* C10: the result of a QueryPosts call is in strictly descending order of the
\* local ids of its posts, and with posts 100, 200, 300 ingested in that order
\* under the term a, the query "a" with limit 10 returns [300, 200, 100].
C10_NewestFirst ==
  /\ qpc = "done" =>
       \A j, k \in 1..Len(qry.result) :
         j < k => call[CallOf(qry.result[j])].localId > call[CallOf(qry.result[k])].localId
  /\ ( /\ QueryEnded
       /\ qry.after = {1, 2, 3}
       /\ \A p \in {1, 2, 3} : call[p].words = <<(<<"a">>)>>
       /\ qry.query = Quoted(<<"a">>)
       /\ qry.limit = 10 )
     => (qpc = "done" /\ qry.result = <<300, 200, 100>>)

\* ParseQuery has returned: a tree, an error, or neither (a panic).
Parsed == qpc \notin {"init", "parse"}

\* The query made of quote, a, quote, space, ampersand.
QuoteASpaceAmp == <<"\"", "a", "\"", " ", "&">>

\* C14, as the claim has it: ParseQuery on the query quote, a, quote, space,
\* ampersand returns the ParseError with Position 4 and Message "Need two
\* operands for &".
C14_SpaceThenAmpAsClaimed ==
  (Parsed /\ qry.query = QuoteASpaceAmp)
    => qry.err = ParseError(4, "Need two operands for &")

\* C14, amended: ParseQuery on the query quote, a, quote, space, ampersand
\* returns the ParseError with Position 3, the offset of the space, and
\* Message "Unexpected character"; it returns no tree.
C14_SpaceIsUnexpected ==
  (Parsed /\ qry.query = QuoteASpaceAmp)
    => (qpc = "done" /\ qry.err = ParseError(3, "Unexpected character"))

\* ParseQuery has returned on that query.
C14_Witness == Parsed /\ qry.query = QuoteASpaceAmp

\* C15: when ParseQuery reads & or | with fewer than two operands on the
\* stack, it returns the ParseError at the offset of that character with the
\* message of that operator; and in no iteration, on any input, is an empty
\* stack popped.
C15_OperandErrorNoUnderflow ==
  /\ qpc # "panic"
  /\ (qpc = "parse" /\ qry.i < Len(qry.query)) =>
       LET c == At(qry.query, qry.i)
           r == ParseToken(qry.query, qry.i, qry.stack, sets, postSets, chunks)
       IN  /\ ~r.panic
           /\ (c = "&" /\ Len(qry.stack) < 2) =>
                r.err = ParseError(qry.i, "Need two operands for &")
           /\ (c = "|" /\ Len(qry.stack) < 2) =>
                r.err = ParseError(qry.i, "Need two operands for |")
           /\ (c \in {"&", "|"} /\ Len(qry.stack) >= 2) =>
                (r.err = NoError /\ Len(r.stack) = Len(qry.stack) - 1)
  /\ (Parsed /\ qry.err.Message = "Need two operands for &") =>
       (qpc = "done" /\ At(qry.query, qry.err.Position) = "&" /\ Len(qry.stack) < 2)
  /\ (Parsed /\ qry.err.Message = "Need two operands for |") =>
       (qpc = "done" /\ At(qry.query, qry.err.Position) = "|" /\ Len(qry.stack) < 2)

\* ParseQuery has returned the error of | met with one operand on the stack,
\* after a literal.
C15_Witness ==
  /\ qpc = "done"
  /\ qry.err.Message = "Need two operands for |"
  /\ qry.err.Position >= 3
  /\ Len(qry.stack) = 1

\* C16: a query that is an opening quote followed by letters only yields the
\* ParseError "Unterminated string constant" at offset 0; that error is always
\* positioned at a quote; and it is never returned for a literal that has a
\* closing quote, that is, no quote follows the position of the error.
C16_UnterminatedOnlyWithoutClosingQuote ==
  /\ ( /\ Parsed
       /\ Len(qry.query) >= 1
       /\ qry.query[1] = "\""
       /\ \A k \in 2..Len(qry.query) : qry.query[k] = "a" )
     => (qpc = "done" /\ qry.err = ParseError(0, "Unterminated string constant"))
  /\ (Parsed /\ qry.err.Message = "Unterminated string constant") =>
       /\ At(qry.query, qry.err.Position) = "\""
       /\ \A j \in (qry.err.Position + 1)..(Len(qry.query) - 1) :
            At(qry.query, j) # "\""

\* C17: the whole input consumed, ParseQuery returns a tree exactly when one
\* operator is on the stack, the tree of that operator; with none or with two
\* or more it returns the ParseError "Unterminated query" at the end of the
\* input. A tree is returned in no other way.
C17_OneOperandAtEnd ==
  [][ /\ (qpc = "parse" /\ qry.i >= Len(qry.query)) =>
           IF Len(qry.stack) = 1
           THEN /\ qpc' = "pull"
                /\ qry'.err = NoError
                /\ qry'.root = NewQueryNode(qry.stack[1])
           ELSE /\ qpc' = "done"
                /\ qry'.root = <<>>
                /\ qry'.err = ParseError(Len(qry.query), "Unterminated query")
      /\ (qpc = "parse" /\ qpc' = "pull") =>
           (qry.i >= Len(qry.query) /\ Len(qry.stack) = 1)
    ]_vars

\* ParseQuery has returned "Unterminated query" with two operands left.
C17_Witness ==
  /\ qpc = "done"
  /\ qry.err = ParseError(Len(qry.query), "Unterminated query")
  /\ Len(qry.stack) >= 2

\* No AddPost call and no QueryPosts call is running.
Quiescent == qpc = "init" /\ \A p \in Calls : pc[p] \in {"init", "done"}

Min(a, b) == IF a < b THEN a ELSE b

\* The local ids that match the expression of an operator tree: those of the
\* list for a term, the intersection for &, the union for |.
RECURSIVE MatchSet(_)
MatchSet(op) ==
  IF op.kind = "terminal" THEN Range(op.snap)
  ELSE IF op.kind = "and" THEN MatchSet(op.Left.op) \cap MatchSet(op.Right.op)
  ELSE MatchSet(op.Left.op) \cup MatchSet(op.Right.op)

\* C11: for any expression and any limit k, QueryPosts returns min(k, number
\* of matches) global ids, and they are the first ids of the result that the
\* same query gives with a limit above the number of posts.
C11_LimitTruncates ==
  Quiescent =>
    \A qs \in QueryStrings : \A k \in Limits :
      LET t == ParseQuery(qs, sets, postSets, chunks)
          u == RunQuery(qs, TestLimit, sets, postSets, chunks, idMap)
          r == RunQuery(qs, k, sets, postSets, chunks, idMap)
      IN  /\ t.tree
          /\ ~u.panic /\ ~r.panic
          /\ Len(r.result) = Min(k, Cardinality(MatchSet(t.root.op)))
          /\ Len(r.result) <= Len(u.result)
          /\ r.result = SubSeq(u.result, 1, Len(r.result))

\* The global ids of the posts listed under term t, newest first.
TermResult(t) == Translate(idMap, Reverse(TermIds(t)))

\* C12: a quoted term that was never ingested is no error and gives the empty
\* stream: QueryPosts on the intersection of an unknown term u and an ingested
\* term x returns no id, and on their union exactly the ids of x, whichever
\* side u is on.
C12_UnknownTermIsEmpty ==
  ( /\ QueryEnded
    /\ qry.after = qry.begun
    /\ qry.limit = TestLimit )
  => \A u, x \in Words :
       (~MapHas(sets, u) /\ MapHas(sets, x)) =>
         /\ qry.query = Quoted(u) =>
              (qpc = "done" /\ qry.err = NoError /\ qry.result = <<>>)
         /\ qry.query \in {Quoted(u) \o Quoted(x) \o <<"&">>,
                           Quoted(x) \o Quoted(u) \o <<"&">>} =>
              (qpc = "done" /\ qry.err = NoError /\ qry.result = <<>>)
         /\ qry.query \in {Quoted(u) \o Quoted(x) \o <<"|">>,
                           Quoted(x) \o Quoted(u) \o <<"|">>} =>
              (qpc = "done" /\ qry.err = NoError /\ qry.result = TermResult(x))

\* C13: on any index state and for any terms x and y, the intersection
\* queries with the operands in the orders x, y and y, x return the same set
\* of ids, and so do the two union queries.
C13_OperandOrderIrrelevant ==
  Quiescent =>
    \A x, y \in Words : \A o \in {"&", "|"} :
      LET xy == RunQuery(Quoted(x) \o Quoted(y) \o <<o>>, TestLimit,
                         sets, postSets, chunks, idMap)
          yx == RunQuery(Quoted(y) \o Quoted(x) \o <<o>>, TestLimit,
                         sets, postSets, chunks, idMap)
      IN  /\ ~xy.panic /\ ~yx.panic
          /\ xy.err = NoError /\ yx.err = NoError
          /\ Range(xy.result) = Range(yx.result)

\* ParseQuery has returned a tree whose root operator is a TerminalOperator.
TerminalRoot == HasTree /\ qry.root.op.kind = "terminal"

\* C18: the ids that QueryPosts has taken from its root QueryNode by MoveNext
\* and Current are the ids that the root's operator has written in its
\* NextChunk calls, in the same order.
C18_NodeExposesOperatorOutput ==
  TerminalRoot =>
    /\ Len(qry.locals) <= Len(qry.root.op.emitted)
    /\ qry.locals = SubSeq(qry.root.op.emitted, 1, Len(qry.locals))

\* C19: on a list that no AddPost call changes meanwhile, the TerminalOperator
\* that ParseQuery builds starts at index Length-1 of the head chunk, writes at
\* most queryBufferSize ids per NextChunk call and, pulled to its end, has
\* emitted the ids of the list from the newest to the oldest, each once.
C19_TerminalNewestToOldest ==
  TerminalRoot =>
    /\ qry.root.length <= queryBufferSize
    /\ (qry.root.op.emitted = <<>> /\ qry.root.length = beforeStartedLength
        /\ qry.root.op.Current # NilRef) =>
         qry.root.op.ChunkCursor = chunks[qry.root.op.Current].Length - 1
    /\ (QueryEnded /\ qry.after = qry.begun /\ qry.limit = TestLimit) =>
         (qpc = "done" /\ qry.root.op.emitted = Reverse(qry.root.op.snap))

\* C20: a TerminalOperator never dereferences a nil chunk: its NextChunk calls
\* all return; once no chunk remains (Current is nil, as it is from the start
\* for an unknown term) a call returns 0 and leaves the operator as it is.
C20_TerminalEndsWithoutNilDereference ==
  TerminalRoot =>
    /\ qpc # "panic"
    /\ qry.root.op.Current = NilRef =>
         LET r == NextChunk(qry.root.op, qry.root.buffer, chunks)
         IN  r.n = 0 /\ ~r.panic /\ r.op = qry.root.op

\* Calls that hold the slice returned by findOrCreateSets.
HoldsSets == {p \in Calls : pc[p] \in {"lock", "alloc", "map", "append", "publish", "unlock"}}

\* C24: under concurrent AddPost calls every PostSet ever created is the
\* PostSet of exactly one term of the map (so one PostSet is created per term
\* and none is ever replaced), and the slice findOrCreateSets has returned
\* holds, for every word passed in, the non-nil PostSet the map has for it:
\* the same one for every caller.
C24_OnePostSetPerTerm ==
  /\ \A s \in 1..Len(postSets) :
       Cardinality({t \in DOMAIN sets.m : sets.m[t] = s}) = 1
  /\ \A t \in DOMAIN sets.m : sets.m[t] \in 1..Len(postSets)
  /\ sets.isNil => sets.m = <<>>
  /\ \A p \in HoldsSets :
       /\ Len(call[p].sets) = Len(call[p].sortedWords)
       /\ \A i \in 1..Len(call[p].sets) :
            /\ call[p].sets[i] # NilRef
            /\ MapHas(sets, call[p].sortedWords[i])
            /\ call[p].sets[i] = sets.m[call[p].sortedWords[i]]

\* A call is between the two passes of findOrCreateSets, having missed a term
\* that another call, still running, has created since.
C24_Witness ==
  \E p, q \in Calls :
    /\ p # q
    /\ pc[p] = "create"
    /\ q \in HoldsSets
    /\ \E i \in 1..Len(call[p].sets) :
         /\ call[p].sets[i] = NilRef
         /\ MapHas(sets, call[p].sortedWords[i])
         /\ sets.m[call[p].sortedWords[i]] \in Range(call[q].sets)

\* The chunks that are the head of a list.
Heads == {postSets[s].firstChunk : s \in 1..Len(postSets)}

\* C25: every chunk has 0 <= Length <= ChunkSize and every chunk behind a head
\* holds ChunkSize ids; in every step a chunk behind a head stays as it is,
\* the Length of no chunk decreases, and the head of a list changes only from
\* a full chunk to a new chunk that holds the appended id at index 0, has
\* Length 1 and has the old head as its Next.
C25_ChunkDiscipline ==
  /\ [](\A c \in 1..Len(chunks) :
          /\ chunks[c].Length \in 0..ChunkSize
          /\ c \notin Heads => chunks[c].Length = ChunkSize)
  /\ [][ /\ Len(chunks') >= Len(chunks)
         /\ \A c \in 1..Len(chunks) :
              /\ chunks'[c].Length >= chunks[c].Length
              /\ c \notin Heads => chunks'[c] = chunks[c]
         /\ \A s \in 1..Len(postSets) :
              postSets'[s].firstChunk # postSets[s].firstChunk =>
                LET old == postSets[s].firstChunk
                    new == postSets'[s].firstChunk
                IN  /\ chunks[old].Length = ChunkSize
                    /\ new = Len(chunks) + 1
                    /\ chunks'[new].Length = 1
                    /\ chunks'[new].Next = old
                    /\ \E p \in Calls :
                         /\ pc[p] = "append"
                         /\ chunks'[new].IDs[0] = call[p].localId
                    /\ \A k \in 1..(ChunkSize - 1) : chunks'[new].IDs[k] = 0
     ]_vars

\* A new head chunk has been pushed onto a list whose old head had been filled
\* slot by slot.
C25_Witness ==
  \E s \in 1..Len(postSets) :
    /\ chunks[postSets[s].firstChunk].Next # NilRef
    /\ chunks[postSets[s].firstChunk].Length = 1
    /\ chunks[chunks[postSets[s].firstChunk].Next].Length = ChunkSize
    /\ ChunkSize >= 2

\* C23: when ParseQuery reads an opening quote that has a quote after it, it
\* returns no error for the literal, and the term it looks up is the
\* characters strictly between the opening quote and the first quote after
\* it, none for two adjacent quotes; the term holds no quote.
C23_LiteralBodyToNextQuote ==
  (qpc = "parse" /\ qry.i < Len(qry.query) /\ At(qry.query, qry.i) = "\"") =>
    LET close == ScanToQuote(qry.query, qry.i + 1)
        r     == ParseToken(qry.query, qry.i, qry.stack, sets, postSets, chunks)
        term  == LiteralTerm(qry.query, qry.i)
    IN  close < Len(qry.query) =>
          /\ r.err = NoError
          /\ r.i = close + 1
          /\ Len(r.stack) = Len(qry.stack) + 1
          /\ term = Slice(qry.query, qry.i + 1, close)
          /\ \A k \in 1..Len(term) : term[k] # "\""

\* The first n values of an operator's buffer, as a sequence.
Written(buffer, n) == [k \in 1..n |-> buffer[k - 1]]

\* The concatenation of what successive NextChunk calls on an operator write,
\* up to the call that returns 0 or panics.
RECURSIVE OperatorStream(_, _, _)
OperatorStream(op, ch, out) ==
  LET r == NextChunk(op, ZeroBuffer, ch)
  IN  IF r.panic THEN [ids |-> out, panic |-> TRUE]
      ELSE IF r.n = 0 THEN [ids |-> out, panic |-> FALSE]
      ELSE OperatorStream(r.op, ch, out \o Written(r.buffer, r.n))

\* The elements of a set of numbers from the largest to the smallest.
RECURSIVE Descending(_)
Descending(S) ==
  IF S = {} THEN <<>>
  ELSE LET m == CHOOSE v \in S : \A w \in S : w <= v
       IN  <<m>> \o Descending(S \ {m})

\* The root operator of the tree ParseQuery builds for terms x and y joined by
\* the operator character o.
PairOperator(x, y, o) ==
  ParseQuery(Quoted(x) \o Quoted(y) \o <<o>>, sets, postSets, chunks).root.op

\* C21: over the lists of any two terms, which are strictly ascending and so
\* are read as strictly descending streams, the successive NextChunk calls of
\* the AndOperator all return and write, taken together, the ids that are in
\* both lists, from the largest to the smallest, each once.
C21_AndIsIntersection ==
  Quiescent =>
    \A x, y \in Words :
      LET s == OperatorStream(PairOperator(x, y, "&"), chunks, <<>>)
      IN  /\ ~s.panic
          /\ s.ids = Descending(Range(TermIds(x)) \cap Range(TermIds(y)))

\* C22: over the lists of any two terms the successive NextChunk calls of the
\* OrOperator all return and write, taken together, the ids that are in either
\* list, from the largest to the smallest, an id of both lists once: nothing
\* is written before the children are at their first value and nothing is
\* skipped between two calls.
C22_OrIsUnion ==
  Quiescent =>
    \A x, y \in Words :
      LET s == OperatorStream(PairOperator(x, y, "|"), chunks, <<>>)
      IN  /\ ~s.panic
          /\ s.ids = Descending(Range(TermIds(x)) \cup Range(TermIds(y)))

\* The QueryNodes of a tree: the node and the nodes below it.
RECURSIVE Nodes(_)
Nodes(node) ==
  {node} \cup (IF node.op.kind = "terminal" THEN {}
               ELSE Nodes(node.op.Left) \cup Nodes(node.op.Right))

\* QueryPosts holds a tree and has not panicked.
LiveTree == qpc \in {"pull", "translate"} \/ (qpc = "done" /\ qry.err = NoError)

\* C26: for every QueryNode of a tree, a MoveNext that returns false leaves
\* the node Done; on a Done node MoveNext returns false and leaves the node,
\* its operator included, as it is; and a MoveNext that returns true leaves
\* the node running with 0 <= cursor < length <= queryBufferSize.
C26_NodeStateMachine ==
  LiveTree =>
    \A n \in Nodes(qry.root) :
      LET r == MoveNext(n, chunks)
      IN  /\ n.length \in {doneLength} \cup 0..queryBufferSize
          /\ Done(n) => (~r.ok /\ ~r.panic /\ r.node = n)
          /\ (~r.ok /\ ~r.panic) => Done(r.node)
          /\ r.ok => /\ ~Done(r.node)
                     /\ 0 <= r.node.cursor
                     /\ r.node.cursor < r.node.length
                     /\ r.node.length <= queryBufferSize

\* The root has returned true and then false: it is Done, and QueryPosts holds
\* what it took from it; and a node below it is Done as well.
C26_Witness ==
  /\ qpc = "translate"
  /\ Done(qry.root)
  /\ Len(qry.locals) >= 1
  /\ \E n \in Nodes(qry.root) : n # qry.root /\ Done(n)

====
